---- MODULE Spec2Model ----
(***************************************************************************)
(* Exhibit lifecycle of the AIRT gallery: the ExhibitLoader                *)
(* (public/js/core/exhibit-loader.js) and the Router                       *)
(* (public/js/core/router.js).                                             *)
(*                                                                         *)
(* One action is one browser task (an event handler, a network or timer    *)
(* completion) together with the promise continuations it makes runnable:  *)
(* the microtask queue is drained before the next task starts, so nothing  *)
(* interleaves between an await on an already settled promise and its      *)
(* continuation.  The program state is passed through the operators as a   *)
(* record s with one field per variable; Cur reads it and Commit writes    *)
(* it.  The record has one more field, pushes: the number of                *)
(* window.history.pushState calls made by the step being taken, and        *)
(* hookLog: the hooks of exhibit instances the step has called, in order.  *)
(* The program never reads either, so they are not kept between steps.     *)
(***************************************************************************)
EXTENDS Naturals, Sequences, FiniteSets, TLC

VARIABLES
  registry,         \* ExhibitLoader.registry: "null", "loaded" or "empty"
  ctorFetch,        \* the constructor's loadRegistry() is still in flight
  loadedScripts,    \* ExhibitLoader.loadedScripts: library -> promise state
  scripts,          \* per library: where the latest promise loadScript
                    \* created stands, and what loadScript did so far
  head,             \* the script elements loadScript has in document.head
  globals,          \* window[globalName] is defined, per library
  tasks,            \* the async calls made so far, each with its position
  container,        \* #exhibit-container: the instances owning a child of it
  resizeListeners,  \* the window's resize listeners, by the closure's owner
  lastUnload,       \* the latest unloadExhibit call: its argument ("null"
                    \* or "instance"), the hook that threw in it and how
                    \* its promise settled
  currentRoute,     \* Router.currentRoute
  currentExhibit,   \* Router.currentExhibit (NoExhibit is null)
  galleryVisible,   \* #gallery-view is displayed
  exhibitVisible,   \* #exhibit-view is displayed
  loadingVisible,   \* #loading is displayed
  rafPending,       \* requestAnimationFrame callbacks of showExhibit pending
  hideTimers,       \* setTimeout(hideLoading, 50) timers pending
  instance,         \* one instance of an exhibit class: its fields, its
                    \* listeners on window and document and its pending
                    \* requestAnimationFrame callbacks
  wait,             \* a waitForGlobal call made with arguments of its own
  variant,          \* the loader that looks scripts up by element id: the
                    \* script element carrying each id and the loadScript
                    \* calls made
  gallery           \* the Gallery: its fields, the fetches of loadExhibits,
                    \* the timers of the debounced search handler

vars == <<registry, ctorFetch, loadedScripts, scripts, head, globals,
          tasks, container,
          resizeListeners, lastUnload, currentRoute, currentExhibit,
          galleryVisible, exhibitVisible, loadingVisible, rafPending,
          hideTimers, instance, wait, variant, gallery>>

\* Everything but the record of the latest unloadExhibit call.
programVars == <<registry, ctorFetch, loadedScripts, scripts, head, globals,
                 tasks, container,
                 resizeListeners, currentRoute, currentExhibit,
                 galleryVisible, exhibitVisible, loadingVisible, rafPending,
                 hideTimers, instance, wait, variant, gallery>>

\* Number of async calls (showExhibit, loadExhibit, getExhibitConfig) made in
\* one run.
MaxTasks == 2

\* Number of showExhibit calls in one run in which every network step
\* succeeds.
MaxRapid == 3

\* Number of async calls in one run of a loader driven directly, and of a
\* Router followed through a single load.
MaxLoads == 1

\* Number of direct loadScript calls per library in one run.
MaxScriptCalls == 2

----------------------------------------------------------------------------
(* The environment: paths, the registry document, the exhibits' configs.   *)

Root == <<"/">>

NoRoute == <<"null">>

NoExhibit == 0

\* The registry document served at /js/exhibits/registry.json.
RegistryDoc ==
  << [id |-> <<"a">>, enabled |-> TRUE],
     [id |-> <<"b">>, enabled |-> FALSE] >>

\* The paths the browser can hand to the Router: the root, one path per
\* registry entry, one with a trailing slash, one of an unknown exhibit.
Paths == { Root, <<"/", "a">>, <<"/", "b">>, <<"/", "a", "/">>, <<"/", "x">> }

ExhibitIds == { <<"a">>, <<"b">>, <<"x">> }

Libraries == { "p5", "dat" }

\* The config.json of an exhibit of the registry.
Config(id) ==
  IF id = <<"a">>
  THEN [library |-> "none", controls |-> "none", hasInit |-> TRUE]
  ELSE [library |-> "p5", controls |-> "dat.gui", hasInit |-> FALSE]

\* waitForGlobal(globalName, timeout = 5000, interval = 50): the interval.
Interval == 50

\* The timeout of waitForGlobal, shortened from the 5000 of the source.
Timeout == 100

\* No loadScript call was made for the library yet.  phase: "none",
\* "primary" or "fallback" (that element is loading), "polling" (a
\* waitForGlobal timer is pending), "ready", "failed".  elapsed is
\* waitForGlobal's elapsedTime.  calls, injections and fallbacks count the
\* loadScript calls and the primary and fallback elements appended; returned
\* holds the promises handed to callers, each named by the number of the
\* injection that created it; error is the rejection's error.
NoScript ==
  [phase |-> "none", elapsed |-> 0, calls |-> 0, injections |-> 0,
   fallbacks |-> 0, returned |-> {}, error |-> <<"none">>]

\* The optional hooks the exhibit classes implement; start, stop and destroy
\* are implemented by every exhibit.
Hooks(id) ==
  IF id = <<"a">>
  THEN {"start", "stop", "destroy", "resize", "togglePause"}
  ELSE {"start", "stop", "destroy", "reset"}

\* A call made without looking for the hook.
AnyHook(id, hook) == TRUE

\* "if (exhibit.hook)"
HasHook(id, hook) == hook \in Hooks(id)

\* "if (x.hook) { x.hook(); }"
callHook(s, x, hook) ==
  IF HasHook(s.tasks[x].id, hook)
  THEN [s EXCEPT !.hookLog = Append(@, <<hook, x>>)]
  ELSE s

\* What the hooks of an instance do when unloadExhibit calls them.
Env == [stopThrows : BOOLEAN, destroyThrows : BOOLEAN]

NoThrow == [stopThrows |-> FALSE, destroyThrows |-> FALSE]

\* The hook behaviours that matter to a step of the Router: none when it has
\* no exhibit to unload.
RouterEnv == IF currentExhibit = NoExhibit THEN {NoThrow} ELSE Env

\* The latest instance of an exhibit class and what the page holds for the
\* instances before it: class "none" where no exhibit class is looked into.
\* animationId 0 is null; frames are the ids of the instance's pending
\* requestAnimationFrame callbacks; a listener of window or document is
\* <<target, type, function>>, functions counts the function objects
\* created so far and born is that count when the instance was constructed;
\* orphans are the pending callbacks of destroyed instances, per class;
\* count is the number of instances constructed.
NewInstance(class) ==
  [class |-> class, phase |-> "constructed", started |-> FALSE,
   isRunning |-> FALSE, isPaused |-> FALSE, animationId |-> 0,
   frames |-> {}, listeners |-> {}, functions |-> 0, born |-> 0,
   orphans |-> <<>>, count |-> 1]

NoInstance == NewInstance("none")

\* A waitForGlobal call: its arguments, its elapsedTime, the number of
\* checks that found the global undefined, whether setTimeout(check,
\* interval) is pending, the state of the promise and the number of
\* resolve() and reject() calls made.
NewWait(name, timeout, interval) ==
  [name |-> name, timeout |-> timeout, interval |-> interval,
   elapsedTime |-> 0, failed |-> 0, timer |-> FALSE, promise |-> "pending",
   resolves |-> 0, rejects |-> 0]

\* The loader that looks scripts up by element id, before any call: no
\* element carries the id of a library.  element is "none", "primary" or
\* "fallback" (appended, loading), "loaded" (its load event has fired) or
\* "failed" (the fallback's error event has fired); a call is the library
\* and the state of the promise it returned.
NoVariant == [element |-> [l \in Libraries |-> "none"], calls |-> <<>>]

\* new Gallery() with the registry document doc (a sequence of "true",
\* "false" or "undefined": the enabled flag of each entry, the entry's id
\* being its position): init() has called loadExhibits, whose registry
\* fetch is in flight.  fetches are the config fetches, per entry; exhibits
\* and filteredExhibits hold configs, named by id; a timer of the debounced
\* handler is [id, args, remaining]; burst observes the input events: one
\* was seen, the number in the current burst, the value of the last, the
\* time since the last (up to the delay) and the number of times the
\* handler's callback has run since the burst began.
NewGallery(doc) ==
  [phase |-> "registry", registry |-> doc,
   fetches |-> [i \in 1..Len(doc) |-> "none"],
   exhibits |-> <<>>, filteredExhibits |-> <<>>,
   currentCategory |-> "all", searchQuery |-> <<>>,
   timers |-> {}, timeoutId |-> 0,
   burst |-> [typed |-> FALSE, events |-> 0, value |-> <<>>, since |-> 0,
              runs |-> 0]]

\* A page without the Gallery.
NoGallery == [NewGallery(<<>>) EXCEPT !.phase = "none"]

\* No such call was made.
NoWait == [NewWait("none", 0, 0) EXCEPT !.promise = "none"]

----------------------------------------------------------------------------
(* State record.                                                           *)

Cur ==
  [registry |-> registry, ctorFetch |-> ctorFetch,
   loadedScripts |-> loadedScripts, scripts |-> scripts, head |-> head,
   globals |-> globals, pushes |-> 0, hookLog |-> <<>>,
   tasks |-> tasks, container |-> container,
   resizeListeners |-> resizeListeners, lastUnload |-> lastUnload,
   currentRoute |-> currentRoute, currentExhibit |-> currentExhibit,
   galleryVisible |-> galleryVisible, exhibitVisible |-> exhibitVisible,
   loadingVisible |-> loadingVisible, rafPending |-> rafPending,
   hideTimers |-> hideTimers, instance |-> instance, wait |-> wait,
   variant |-> variant, gallery |-> gallery]

Commit(s) ==
  /\ registry' = s.registry
  /\ ctorFetch' = s.ctorFetch
  /\ loadedScripts' = s.loadedScripts
  /\ scripts' = s.scripts
  /\ head' = s.head
  /\ globals' = s.globals
  /\ tasks' = s.tasks
  /\ container' = s.container
  /\ resizeListeners' = s.resizeListeners
  /\ lastUnload' = s.lastUnload
  /\ currentRoute' = s.currentRoute
  /\ currentExhibit' = s.currentExhibit
  /\ galleryVisible' = s.galleryVisible
  /\ exhibitVisible' = s.exhibitVisible
  /\ loadingVisible' = s.loadingVisible
  /\ rafPending' = s.rafPending
  /\ hideTimers' = s.hideTimers
  /\ instance' = s.instance
  /\ wait' = s.wait
  /\ variant' = s.variant
  /\ gallery' = s.gallery

\* A call just made.  kind: "show" (Router.showExhibit's loadExhibit), "load"
\* (loadExhibit called directly), "config" (getExhibitConfig called directly).
NewTask(kind, id) ==
  [kind |-> kind, id |-> id, pc |-> "start", result |-> "pending",
   failed |-> FALSE, inst |-> "none", handler |-> NoExhibit,
   isRunning |-> FALSE]

----------------------------------------------------------------------------
(* ExhibitLoader.unloadExhibit                                             *)

\* A catch block that rethrows: the promise of unloadExhibit rejects.
UnloadRethrow == "rejected"

\* The catch block of unloadExhibit: the error is logged and the async
\* function returns, so its promise resolves.
UnloadCatch == "resolved"

\* A handler built anew at unload time: a function reference that was never
\* registered.
FreshHandler(s, x) == NoExhibit

\* The listener unloadExhibit removes: the one recorded on the instance.
RecordedHandler(s, x) == s.tasks[x].handler

unloadExhibit(s, x, env) ==
  IF x = NoExhibit
  THEN [s EXCEPT !.lastUnload =
                    [arg |-> "null", threw |-> "none", outcome |-> "resolved"]]
  ELSE
    LET s0 == callHook([s EXCEPT !.tasks[x].inst = "unloaded",
                                 !.tasks[x].isRunning = FALSE], x, "stop")
        s1 == IF env.stopThrows THEN s0 ELSE callHook(s0, x, "destroy")
    IN IF env.stopThrows
       THEN [s1 EXCEPT !.lastUnload =
               [arg |-> "instance", threw |-> "stop",
                outcome |-> UnloadCatch]]
       ELSE IF env.destroyThrows
       THEN [s1 EXCEPT !.lastUnload =
               [arg |-> "instance", threw |-> "destroy",
                outcome |-> UnloadCatch]]
       ELSE [s1 EXCEPT
               !.resizeListeners = @ \ {RecordedHandler(s, x)},
               !.container = {},
               !.lastUnload =
                  [arg |-> "instance", threw |-> "none",
                   outcome |-> "resolved"]]

----------------------------------------------------------------------------
(* Router: navigateTo, handleRoute, showGallery, showExhibit; and           *)
(* ExhibitLoader: getExhibitConfig, loadExhibit.                            *)

NormalizePath(path) ==
  IF path # Root /\ Len(path) > 0 /\ path[Len(path)] = "/"
  THEN SubSeq(path, 1, Len(path) - 1)
  ELSE path

\* A Router that keeps its reference to the instance it has unloaded.
KeptExhibit(x) == x

\* "this.currentExhibit = null" after unloadExhibit(this.currentExhibit).
ClearedExhibit(x) == NoExhibit

showGallery(s, env) ==
  LET s1 == IF s.currentExhibit # NoExhibit
            THEN [unloadExhibit(s, s.currentExhibit, env)
                    EXCEPT !.currentExhibit = ClearedExhibit(s.currentExhibit)]
            ELSE s
  IN [s1 EXCEPT !.exhibitVisible = FALSE, !.galleryVisible = TRUE,
                !.loadingVisible = FALSE]

RegistryIds(reg) ==
  IF reg = "loaded"
  THEN { RegistryDoc[i].id : i \in 1..Len(RegistryDoc) }
  ELSE {}

\* A loader that takes p5 as needed by every exhibit.
DefaultLibs(config) == {"p5"}

\* The libraries a config asks for.
LibsOf(config) ==
  (IF config.library = "p5" THEN {"p5"} ELSE {}) \cup
  (IF config.controls = "dat.gui" THEN {"dat"} ELSE {})

\* A catch block that rethrows: the promise of loadExhibit rejects.
LoadExhibitRethrow == "rejected"

\* The catch block of loadExhibit: the error is logged and null is returned.
LoadExhibitCatch == "null"

RECURSIVE navigateTo(_, _, _)

\* A Router that stays on its route when a load fails.
SameRoute(s) == s.currentRoute

\* "this.navigateTo('/')" after a load that came back null.
FallbackRoute(s) == Root

\* showExhibit after "this.currentExhibit = await loadExhibit(id)".
showExhibitResume(s, t, env) ==
  LET r == s.tasks[t].result
  IN IF r = "rejected"
     THEN navigateTo([s EXCEPT !.loadingVisible = FALSE], Root, env)
     ELSE IF r = "null"
     THEN LET s1 == [s EXCEPT !.currentExhibit = NoExhibit]
          IN navigateTo(s1, FallbackRoute(s1), env)
     ELSE [s EXCEPT !.currentExhibit = t,
                    !.galleryVisible = FALSE,
                    !.exhibitVisible = TRUE,
                    !.rafPending = @ + 1]

\* loadExhibit returns (result "null" or "instance") or rejects.
loadReturn(s, t, result, failed, env) ==
  LET s1 == [s EXCEPT !.tasks[t].pc = "done",
                      !.tasks[t].result = result,
                      !.tasks[t].failed = failed]
  IN IF s.tasks[t].kind = "show" THEN showExhibitResume(s1, t, env) ELSE s1

\* An exception inside the try block of loadExhibit.
loadCatch(s, t, env) == loadReturn(s, t, LoadExhibitCatch, TRUE, env)

\* "window.addEventListener('resize', resizeHandler);
\*  exhibit._resizeHandler = resizeHandler; ... return exhibit"
attachAndReturn(s, t, env) ==
  loadReturn([s EXCEPT !.resizeListeners = @ \cup {t},
                       !.tasks[t].handler = t],
             t, "instance", FALSE, env)

\* "this.container.innerHTML = ''; const module = await import(...)"
importModule(s, t) ==
  [s EXCEPT !.container = {}, !.tasks[t].pc = "import"]

\* A loader that does not wait for its libraries.
LibrariesAssumed(s, libs) == TRUE

\* Promise.all(libraryPromises) fulfils: every promise has resolved.
LibrariesResolved(s, libs) == \A l \in libs : s.loadedScripts[l] = "resolved"

\* "await Promise.all(libraryPromises)"
awaitLibraries(s, t, env) ==
  LET libs == LibsOf(Config(s.tasks[t].id))
  IN IF \E l \in libs : s.loadedScripts[l] = "rejected"
     THEN loadCatch(s, t, env)
     ELSE IF LibrariesResolved(s, libs)
     THEN importModule(s, t)
     ELSE [s EXCEPT !.tasks[t].pc = "deps"]

\* A map that never has the key.
NotInLoadedScripts(s, l) == FALSE

\* A map that drops the promises that were rejected.
InUnrejectedScripts(s, l) == s.loadedScripts[l] \in {"pending", "resolved"}

\* "this.loadedScripts.has(src)"
InLoadedScripts(s, l) == s.loadedScripts[l] # "none"

\* loadScript(src, fallbackSrc, globalName) for the library l: the promise of
\* the map is returned, or a new promise is created, the primary element
\* appended to document.head and the promise stored in the map.
loadScript(s, l) ==
  LET called == [s EXCEPT !.scripts[l].calls = @ + 1]
  IN IF InLoadedScripts(s, l)
     THEN [called EXCEPT
             !.scripts[l].returned = @ \cup {s.scripts[l].injections}]
     ELSE [called EXCEPT
             !.loadedScripts[l] = "pending",
             !.scripts[l].phase = "primary",
             !.scripts[l].elapsed = 0,
             !.scripts[l].injections = @ + 1,
             !.scripts[l].returned = @ \cup {s.scripts[l].injections + 1},
             !.head = @ \cup {<<l, "primary">>}]

\* "if (config.library === 'p5') libraryPromises.push(this.loadScript(...));
\*  if (config.controls === 'dat.gui') libraryPromises.push(...);
\*  await Promise.all(libraryPromises)"
loadLibraries(s, t, env) ==
  LET config == Config(s.tasks[t].id)
      s1 == IF config.library = "p5" THEN loadScript(s, "p5") ELSE s
      s2 == IF config.controls = "dat.gui" THEN loadScript(s1, "dat") ELSE s1
  IN awaitLibraries(s2, t, env)

\* getExhibitConfig returns cfg ("null" or "ok") to its caller.
configReturn(s, t, cfg, env) ==
  IF s.tasks[t].kind = "config"
  THEN [s EXCEPT !.tasks[t].pc = "done", !.tasks[t].result = cfg]
  ELSE IF cfg = "null"
  THEN loadReturn(s, t, "null", TRUE, env)
  ELSE loadLibraries(s, t, env)

\* A lookup that takes every id as found.
FindAnyExhibit(reg, id) == TRUE

\* this.registry.exhibits: the entries of the document, or none after a
\* failed fetch.
registryExhibits(reg) == IF reg = "loaded" THEN RegistryDoc ELSE <<>>

\* A test that passes over the entries the gallery hides.
EnabledIdMatch(e, id) == e.id = id /\ e.enabled

\* "e => e.id === exhibitId"
IdMatch(e, id) == e.id = id

\* "entries.find(e => e.id === exhibitId)" finds an entry.
find(entries, id) == \E i \in 1..Len(entries) : IdMatch(entries[i], id)

\* "const exhibit = this.registry.exhibits.find(e => e.id === exhibitId)"
FindExhibit(reg, id) == find(registryExhibits(reg), id)

lookupExhibit(s, t, env) ==
  IF ~FindExhibit(s.registry, s.tasks[t].id)
  THEN configReturn(s, t, "null", env)
  ELSE [s EXCEPT !.tasks[t].pc = "config"]

\* "if (!this.registry) { await this.loadRegistry(); }"
NeedsRegistryFetch(s) == s.registry = "null"

getExhibitConfig(s, t, env) ==
  IF NeedsRegistryFetch(s)
  THEN [s EXCEPT !.tasks[t].pc = "registry"]
  ELSE lookupExhibit(s, t, env)

startCall(s, kind, id, env) ==
  getExhibitConfig([s EXCEPT !.tasks = Append(@, NewTask(kind, id))],
                   Len(s.tasks) + 1, env)

showExhibit(s, id, env) ==
  LET s1 == [s EXCEPT !.loadingVisible = TRUE]
      s2 == IF s1.currentExhibit # NoExhibit
            THEN unloadExhibit(s1, s1.currentExhibit, env)
            ELSE s1
  IN IF s1.currentExhibit # NoExhibit /\ s2.lastUnload.outcome = "rejected"
     THEN navigateTo([s2 EXCEPT !.loadingVisible = FALSE], Root, env)
     ELSE startCall([s2 EXCEPT !.currentExhibit = NoExhibit], "show", id, env)

\* A route test that never matches.
NeverOnRoute(s, path) == FALSE

\* "if (this.currentRoute === path) return"
AlreadyOnRoute(s, path) == s.currentRoute = path

handleRoute(s, rawPath, env) ==
  LET path == NormalizePath(rawPath)
  IN IF AlreadyOnRoute(s, path)
     THEN s
     ELSE LET s1 == [s EXCEPT !.currentRoute = path]
          IN IF path = Root \/ path = <<>>
             THEN showGallery(s1, env)
             ELSE IF Tail(path) = <<>>
             THEN showGallery(s1, env)
             ELSE showExhibit(s1, Tail(path), env)

\* A navigateTo that never acts.
NeverNavigate(s, path) == FALSE

\* "if (path !== this.currentRoute)"
ShouldNavigate(s, path) == path # s.currentRoute

\* "window.history.pushState({}, '', path); this.handleRoute(path)"
navigateTo(s, path, env) ==
  IF ShouldNavigate(s, path)
  THEN handleRoute([s EXCEPT !.pushes = @ + 1], path, env)
  ELSE s

----------------------------------------------------------------------------
(* Initial states.                                                         *)

\* new ExhibitLoader(): the registry fetch is started and not awaited.
LoaderInit ==
  [registry |-> "null", ctorFetch |-> TRUE,
   loadedScripts |-> [l \in Libraries |-> "none"],
   scripts |-> [l \in Libraries |-> NoScript], head |-> {},
   globals |-> [l \in Libraries |-> FALSE], pushes |-> 0, hookLog |-> <<>>,
   tasks |-> <<>>,
   container |-> {}, resizeListeners |-> {},
   lastUnload |-> [arg |-> "none", threw |-> "none", outcome |-> "none"],
   currentRoute |-> NoRoute, currentExhibit |-> NoExhibit,
   galleryVisible |-> TRUE, exhibitVisible |-> FALSE,
   loadingVisible |-> FALSE, rafPending |-> 0, hideTimers |-> 0,
   instance |-> NoInstance, wait |-> NoWait, variant |-> NoVariant,
   gallery |-> NoGallery]

\* The variables hold the state s.
Holds(s) ==
  /\ registry = s.registry
  /\ ctorFetch = s.ctorFetch
  /\ loadedScripts = s.loadedScripts
  /\ scripts = s.scripts
  /\ head = s.head
  /\ globals = s.globals
  /\ tasks = s.tasks
  /\ container = s.container
  /\ resizeListeners = s.resizeListeners
  /\ lastUnload = s.lastUnload
  /\ currentRoute = s.currentRoute
  /\ currentExhibit = s.currentExhibit
  /\ galleryVisible = s.galleryVisible
  /\ exhibitVisible = s.exhibitVisible
  /\ loadingVisible = s.loadingVisible
  /\ rafPending = s.rafPending
  /\ hideTimers = s.hideTimers
  /\ instance = s.instance
  /\ wait = s.wait
  /\ variant = s.variant
  /\ gallery = s.gallery

\* new Router(): the loader is constructed, then init() routes the path the
\* page was opened at.
Init ==
  \E path \in Paths :
    Holds(handleRoute(LoaderInit, path, NoThrow))

\* A loader on its own, driven through its methods.
InitLoader == Holds(LoaderInit)

----------------------------------------------------------------------------
(* Router events.                                                          *)

\* window.router.navigateTo(path): a gallery card, the back button.
NavigateTo(path, max) ==
  /\ \E env \in RouterEnv :
       LET s == navigateTo(Cur, path, env)
       IN /\ Len(s.tasks) <= max
          /\ Commit(s)

\* The popstate listener of Router.init, the browser having moved to path.
popstate(s, path, env) == handleRoute(s, path, env)

Popstate(path, max) ==
  /\ \E env \in RouterEnv :
       LET s == popstate(Cur, path, env)
       IN /\ Len(s.tasks) <= max
          /\ Commit(s)

\* The keydown listener of setupKeyboardShortcuts.
keyDown(s, key, env) ==
  LET x == s.currentExhibit
      s1 == IF key = "Escape" /\ x # NoExhibit
            THEN navigateTo(s, Root, env)
            ELSE s
      y == s1.currentExhibit
      s2 == IF key = " " /\ y # NoExhibit
            THEN callHook(s1, y, "togglePause")
            ELSE s1
  IN IF key \in {"r", "R"} /\ s2.currentExhibit # NoExhibit
     THEN callHook(s2, s2.currentExhibit, "reset")
     ELSE s2

KeyDown(key) ==
  /\ \E env \in (IF key = "Escape" THEN RouterEnv ELSE {NoThrow}) :
       Commit(keyDown(Cur, key, env))

\* The requestAnimationFrame callback of showExhibit.  It reads
\* this.currentExhibit when it runs; on null the property access throws and
\* the callback ends before the timer is set.
animationFrame(s) ==
  LET x == s.currentExhibit
      s1 == [s EXCEPT !.rafPending = @ - 1]
  IN IF x = NoExhibit
     THEN s1
     ELSE LET s2 == callHook(callHook(s1, x, "resize"), x, "start")
          IN [s2 EXCEPT !.tasks[x].isRunning = HasHook(s.tasks[x].id, "start"),
                        !.hideTimers = @ + 1]

AnimationFrame ==
  /\ rafPending > 0
  /\ Commit(animationFrame(Cur))

\* "setTimeout(() => this.hideLoading(), 50)"
HideLoadingTimer ==
  /\ hideTimers > 0
  /\ Commit([Cur EXCEPT !.hideTimers = @ - 1, !.loadingVisible = FALSE])

----------------------------------------------------------------------------
(* Completions of the loader's asynchronous steps.                         *)

\* loadRegistry: the fetch settles; on any error the registry is empty.
RegistryOutcome(ok) == IF ok THEN "loaded" ELSE "empty"

CtorRegistryDone(ok) ==
  /\ ctorFetch
  /\ Commit([Cur EXCEPT !.ctorFetch = FALSE,
                        !.registry = RegistryOutcome(ok)])

TaskRegistryDone(t, ok) ==
  /\ t \in 1..Len(tasks)
  /\ tasks[t].pc = "registry"
  /\ \E env \in RouterEnv :
       Commit(lookupExhibit([Cur EXCEPT !.registry = RegistryOutcome(ok)],
                            t, env))

\* The fetch of the exhibit's config.json (and its parse) settles.
ConfigFetchDone(t, ok) ==
  /\ t \in 1..Len(tasks)
  /\ tasks[t].pc = "config"
  /\ \E env \in RouterEnv :
       Commit(configReturn(Cur, t, IF ok THEN "ok" ELSE "null", env))

RECURSIVE resumeWaiters(_, _, _)
\* The tasks waiting in Promise.all, resumed in turn.
resumeWaiters(s, t, env) ==
  IF t > Len(s.tasks)
  THEN s
  ELSE resumeWaiters(
         IF s.tasks[t].pc = "deps" THEN awaitLibraries(s, t, env) ELSE s,
         t + 1, env)

\* resolve() or reject(error) of the promise loadScript created for l, and
\* the continuations of the callers awaiting it.
settle(s, l, outcome, error, env) ==
  resumeWaiters(
    [s EXCEPT !.loadedScripts[l] = outcome,
              !.scripts[l].phase = IF outcome = "resolved" THEN "ready"
                                   ELSE "failed",
              !.scripts[l].error = error],
    1, env)

\* A wait without a time limit.
NeverTimedOut(elapsedTime, timeout) == FALSE

\* A test that lets the wait go on when the time is just up.
TimedOutLate(elapsedTime, timeout) == elapsedTime > timeout

\* "if (elapsedTime >= timeout)"
TimedOut(elapsedTime, timeout) == elapsedTime >= timeout

\* The check of waitForGlobal: what it does, and its elapsedTime afterwards.
checkResult(truthy, elapsedTime, timeout, interval) ==
  IF truthy
  THEN [does |-> "resolve", elapsedTime |-> elapsedTime]
  ELSE [does |-> IF TimedOut(elapsedTime + interval, timeout)
                 THEN "reject" ELSE "setTimeout",
        elapsedTime |-> elapsedTime + interval]

\* The check of the waitForGlobal call handleLoad makes, with the default
\* timeout and interval.
check(s, l, env) ==
  LET r == checkResult(s.globals[l], s.scripts[l].elapsed, Timeout, Interval)
      s1 == [s EXCEPT !.scripts[l].elapsed = r.elapsedTime]
  IN CASE r.does = "resolve" -> settle(s1, l, "resolved", <<"none">>, env)
       [] r.does = "reject" ->
            settle(s1, l, "rejected", <<"timeout", l>>, env)
       [] OTHER -> [s1 EXCEPT !.scripts[l].phase = "polling"]

\* The check of a waitForGlobal call made with its own arguments.  resolve
\* and reject settle the promise only when it is pending.
waitCheck(s) ==
  LET w == s.wait
      r == checkResult(s.globals[w.name], w.elapsedTime, w.timeout,
                       w.interval)
      w1 == [w EXCEPT !.elapsedTime = r.elapsedTime, !.timer = FALSE,
                      !.failed = IF r.does = "resolve" THEN @ ELSE @ + 1]
  IN CASE r.does = "resolve" ->
            [s EXCEPT !.wait =
               [w1 EXCEPT !.resolves = @ + 1,
                          !.promise = IF @ = "pending"
                                      THEN "resolved" ELSE @]]
       [] r.does = "reject" ->
            [s EXCEPT !.wait =
               [w1 EXCEPT !.rejects = @ + 1,
                          !.promise = IF @ = "pending"
                                      THEN "rejected" ELSE @]]
       [] OTHER -> [s EXCEPT !.wait = [w1 EXCEPT !.timer = TRUE]]

\* waitForGlobal(globalName, timeout, interval): the first check is made in
\* the call.
waitForGlobal(s, name, timeout, interval) ==
  waitCheck([s EXCEPT !.wait = NewWait(name, timeout, interval)])

\* handleLoad: every loadScript call of loadExhibit passes a globalName, so
\* waitForGlobal is entered with elapsedTime = 0 and checks at once.
handleLoad(s, l, env) == check([s EXCEPT !.scripts[l].elapsed = 0], l, env)

\* A loadScript call without a fallbackSrc.
NoFallback(l) == FALSE

\* "if (fallbackSrc)": loadExhibit passes one for p5 and for dat.gui.
HasFallback(l) == TRUE

\* handleError of the primary element.
handleError(s, l, env) ==
  LET s1 == [s EXCEPT !.head = @ \ {<<l, "primary">>}]
  IN IF HasFallback(l)
     THEN [s1 EXCEPT !.head = @ \cup {<<l, "fallback">>},
                     !.scripts[l].fallbacks = @ + 1,
                     !.scripts[l].phase = "fallback"]
     ELSE settle(s1, l, "rejected", <<"load", l>>, env)

\* onerror of the fallback element.
fallbackError(s, l, env) ==
  settle([s EXCEPT !.head = @ \ {<<l, "fallback">>}],
         l, "rejected", <<"load", l>>, env)

\* The load event of the element being loaded.  The script has run: ready
\* tells whether it has defined its global by now.
ScriptLoad(l, ready) ==
  /\ scripts[l].phase \in {"primary", "fallback"}
  /\ \E env \in RouterEnv :
       Commit(handleLoad([Cur EXCEPT !.globals[l] = @ \/ ready], l, env))

\* The error event of the element being loaded.
ScriptError(l) ==
  /\ scripts[l].phase \in {"primary", "fallback"}
  /\ \E env \in RouterEnv :
       Commit(IF scripts[l].phase = "primary"
              THEN handleError(Cur, l, env)
              ELSE fallbackError(Cur, l, env))

\* "setTimeout(check, interval)" fires.
PollTimer(l) ==
  /\ scripts[l].phase = "polling"
  /\ \E env \in RouterEnv : Commit(check(Cur, l, env))

\* window[globalName] becomes defined: the library finishes initialising
\* after its load event or, when anytime, some other script of the page
\* defines it.
GlobalDefined(l, anytime) ==
  /\ ~globals[l]
  /\ anytime \/ scripts[l].phase = "polling"
  /\ Commit([Cur EXCEPT !.globals[l] = TRUE])

\* An exhibit class without an init method.
WithoutInit(id) == FALSE

\* "if (exhibit.init)"
HasInit(id) == Config(id).hasInit

\* The dynamic import settles; on success the class is looked up and the
\* instance constructed.
ImportDone(t, outcome, appended) ==
  /\ t \in 1..Len(tasks)
  /\ tasks[t].pc = "import"
  /\ \E env \in RouterEnv :
       LET withDom == [Cur EXCEPT !.container =
                         IF appended THEN @ \cup {t} ELSE @]
       IN CASE outcome = "importFails" ->
                 /\ ~appended
                 /\ Commit(loadCatch(Cur, t, env))
            [] outcome = "noExport" ->
                 /\ ~appended
                 /\ Commit(loadReturn(Cur, t, "null", TRUE, env))
            [] outcome = "ctorThrows" ->
                 Commit(loadCatch(withDom, t, env))
            [] outcome = "ok" ->
                 LET s1 == [withDom EXCEPT !.tasks[t].inst = "live"]
                 IN IF HasInit(tasks[t].id)
                    THEN Commit([s1 EXCEPT !.tasks[t].pc = "tick"])
                    ELSE /\ appended
                         /\ Commit(attachAndReturn(s1, t, env))

\* "await new Promise(resolve => setTimeout(resolve, 0))", then init() is
\* called.
Tick(t) ==
  /\ t \in 1..Len(tasks)
  /\ tasks[t].pc = "tick"
  /\ Commit([Cur EXCEPT !.tasks[t].pc = "init"])

\* "await exhibit.init()" settles.
InitDone(t, ok, appended) ==
  /\ t \in 1..Len(tasks)
  /\ tasks[t].pc = "init"
  /\ \E env \in RouterEnv :
       LET withDom == [Cur EXCEPT !.container =
                         IF appended THEN @ \cup {t} ELSE @]
       IN IF ok
          THEN /\ appended
               /\ Commit(attachAndReturn(withDom, t, env))
          ELSE Commit(loadCatch(withDom, t, env))

----------------------------------------------------------------------------
(* Direct calls of the loader's methods.                                   *)

CallLoadExhibit(id) ==
  /\ Len(tasks) < MaxLoads
  /\ \E env \in RouterEnv : Commit(startCall(Cur, "load", id, env))

CallGetExhibitConfig(id) ==
  /\ Len(tasks) < MaxLoads
  /\ \E env \in RouterEnv : Commit(startCall(Cur, "config", id, env))

\* loadScript called with the arguments loadExhibit passes for the library.
CallLoadScript(l) ==
  /\ scripts[l].calls < MaxScriptCalls
  /\ Commit(loadScript(Cur, l))

\* unloadExhibit(null), or unloadExhibit of an instance a load returned.
CallUnloadExhibit(x) ==
  /\ \/ x = NoExhibit
     \/ /\ x \in 1..Len(tasks)
        /\ tasks[x].result = "instance"
        /\ tasks[x].inst = "live"
  /\ \E env \in (IF x = NoExhibit THEN {NoThrow} ELSE Env) :
       Commit(unloadExhibit(Cur, x, env))

----------------------------------------------------------------------------
(* Specifications.                                                         *)

\* The keys of the keydown events: the shortcuts and one other key.
Keys == {"Escape", " ", "r", "R", "x"}

\* The paths navigateTo is called with: the back button and Escape pass the
\* root, a gallery card passes the path of its registry entry.
NavPaths == {Root} \cup { <<"/">> \o RegistryDoc[i].id : i \in 1..Len(RegistryDoc) }

Tasks == 1..(MaxRapid + MaxTasks + MaxLoads)

Completions ==
  \/ \E ok \in BOOLEAN : CtorRegistryDone(ok)
  \/ \E t \in Tasks, ok \in BOOLEAN : TaskRegistryDone(t, ok)
  \/ \E t \in Tasks, ok \in BOOLEAN : ConfigFetchDone(t, ok)
  \/ \E l \in Libraries, ready \in BOOLEAN : ScriptLoad(l, ready)
  \/ \E l \in Libraries : ScriptError(l)
  \/ \E l \in Libraries : PollTimer(l)
  \/ \E l \in Libraries : GlobalDefined(l, FALSE)
  \/ \E t \in Tasks,
        outcome \in {"importFails", "noExport", "ctorThrows", "ok"},
        appended \in BOOLEAN : ImportDone(t, outcome, appended)
  \/ \E t \in Tasks : Tick(t)
  \/ \E t \in Tasks, ok \in BOOLEAN, appended \in BOOLEAN :
        InitDone(t, ok, appended)

\* The Router and its loader.
Next ==
  \/ \E path \in NavPaths : NavigateTo(path, MaxTasks)
  \/ \E path \in Paths : Popstate(path, MaxTasks)
  \/ KeyDown("Escape")
  \/ AnimationFrame
  \/ HideLoadingTimer
  \/ Completions

Spec == Init /\ [][Next]_vars

\* The Router and its loader when every fetch, script, import and init
\* succeeds.
NextRapid ==
  \/ \E path \in NavPaths : NavigateTo(path, MaxRapid)
  \/ \E path \in NavPaths : Popstate(path, MaxRapid)
  \/ KeyDown("Escape")
  \/ AnimationFrame
  \/ HideLoadingTimer
  \/ CtorRegistryDone(TRUE)
  \/ \E t \in Tasks : TaskRegistryDone(t, TRUE)
  \/ \E t \in Tasks : ConfigFetchDone(t, TRUE)
  \/ \E l \in Libraries : ScriptLoad(l, TRUE)
  \/ \E t \in Tasks : ImportDone(t, "ok", ~Config(tasks[t].id).hasInit)
  \/ \E t \in Tasks : Tick(t)
  \/ \E t \in Tasks : InitDone(t, TRUE, TRUE)

InitRapid == \E path \in NavPaths : Holds(handleRoute(LoaderInit, path, NoThrow))

SpecRapid == InitRapid /\ [][NextRapid]_vars

\* A loader on its own.
NextLoader ==
  \/ \E id \in ExhibitIds : CallLoadExhibit(id)
  \/ \E id \in ExhibitIds : CallGetExhibitConfig(id)
  \/ \E x \in {NoExhibit} \cup Tasks : CallUnloadExhibit(x)
  \/ Completions

SpecLoader == InitLoader /\ [][NextLoader]_vars

\* The Router and its loader, followed through MaxLoads loads that succeed
\* or come back null: for an id missing from the registry (also after a
\* failed registry fetch) or after a failed config fetch.
NextNav ==
  \/ \E path \in NavPaths : NavigateTo(path, MaxLoads)
  \/ \E path \in Paths : Popstate(path, MaxLoads)
  \/ \E key \in Keys : KeyDown(key)
  \/ AnimationFrame
  \/ HideLoadingTimer
  \/ \E ok \in BOOLEAN : CtorRegistryDone(ok)
  \/ \E t \in Tasks, ok \in BOOLEAN : TaskRegistryDone(t, ok)
  \/ \E t \in Tasks, ok \in BOOLEAN : ConfigFetchDone(t, ok)
  \/ \E l \in Libraries : ScriptLoad(l, TRUE)
  \/ \E t \in Tasks : ImportDone(t, "ok", ~Config(tasks[t].id).hasInit)
  \/ \E t \in Tasks : Tick(t)
  \/ \E t \in Tasks : InitDone(t, TRUE, TRUE)

SpecNav == Init /\ [][NextNav]_vars

\* loadScript on its own: the calls, the events of the script elements, the
\* polling timer and the page defining the globals.
NextScripts ==
  \/ \E l \in Libraries : CallLoadScript(l)
  \/ \E l \in Libraries, ready \in BOOLEAN : ScriptLoad(l, ready)
  \/ \E l \in Libraries : ScriptError(l)
  \/ \E l \in Libraries : PollTimer(l)
  \/ \E l \in Libraries : GlobalDefined(l, TRUE)

SpecScripts == InitLoader /\ [][NextScripts]_vars

\* A timer set with setTimeout fires.
FairScripts == \A l \in Libraries : WF_vars(PollTimer(l))

SpecScriptsFair == SpecScripts /\ FairScripts

----------------------------------------------------------------------------
(* Properties.                                                             *)

Started == 1..Len(tasks)

\* The instances loadExhibit returned that were not passed to unloadExhibit.
Mounted == { t \in Started : tasks[t].result = "instance" /\ tasks[t].inst = "live" }

\* No asynchronous work is pending.
Settled ==
  /\ ~ctorFetch
  /\ \A t \in Started : tasks[t].pc = "done"
  /\ \A l \in Libraries : loadedScripts[l] # "pending"
  /\ rafPending = 0
  /\ hideTimers = 0

PathOf(id) == <<"/">> \o id

\* Registry fetches in flight.  Every fetch is started while this.registry is
\* still null, that is before the first one settles, so the fetches ever
\* started are those in flight together at that moment.
RegistryFetchesInFlight ==
  (IF ctorFetch THEN 1 ELSE 0) +
  Cardinality({ t \in Started : tasks[t].pc = "registry" })

\* C1: at most one exhibit instance is mounted in every reachable state
\* (here counting only the instances loadExhibit returned and that were not
\* yet passed to unloadExhibit).
C1_AtMostOneMounted == Cardinality(Mounted) <= 1

\* C2: after the Router was sent on from /a to another exhibit path, the
\* instance of /a never becomes the Router's current exhibit, and once all
\* loads have settled the current exhibit and the visible view are those of
\* the current route.
C2_StaleLoadDiscarded ==
  /\ \A t \in Started :
       (currentExhibit = t /\ currentRoute # Root)
         => currentRoute = PathOf(tasks[t].id)
  /\ (Settled /\ currentRoute # Root /\ currentExhibit # NoExhibit)
       => (exhibitVisible /\ ~galleryVisible)

\* C3: when /a is the only exhibit path the Router was ever sent to, then
\* once everything has settled with the Router at the root path, the Router
\* is in the Gallery state: gallery visible, exhibit view hidden, no current
\* exhibit and no instance left mounted.
C3_RoundTripGallery ==
  (Settled /\ currentRoute = Root /\ \A t \in Started : tasks[t].id = <<"a">>)
    => /\ galleryVisible
       /\ ~exhibitVisible
       /\ currentExhibit = NoExhibit
       /\ Mounted = {}

\* C4: whenever the Router invokes loadExhibit, every instance an earlier
\* load produced has been unloaded.
C4_UnloadBeforeLoad ==
  [][Len(tasks') > Len(tasks)
       => \A t \in Started :
            tasks'[t].result = "instance" => tasks'[t].inst = "unloaded"]_vars

C6_LoadNeverRejects ==
  \A t \in Started :
    tasks[t].kind # "config" =>
      /\ tasks[t].result # "rejected"
      /\ tasks[t].pc # "done" => tasks[t].result = "pending"
      /\ tasks[t].pc = "done" =>
           /\ tasks[t].result \in {"null", "instance"}
           /\ tasks[t].failed <=> tasks[t].result = "null"
      /\ tasks[t].result = "instance" =>
           /\ tasks[t].id \in RegistryIds("loaded")
           /\ \A l \in LibsOf(Config(tasks[t].id)) :
                loadedScripts[l] = "resolved"
           /\ tasks[t].inst # "none"
           /\ tasks[t].handler = t

\* C6 witness: a load whose instance was constructed and whose init then
\* rejected has resolved to null.
C6_Witness ==
  \E t \in Started :
    /\ tasks[t].kind = "load"
    /\ tasks[t].pc = "done"
    /\ tasks[t].result = "null"
    /\ tasks[t].inst = "live"

\* C7: after unloadExhibit has returned, whichever hook threw, the recorded
\* resize listener of the instance is no longer registered.
C7_TeardownDespiteThrow ==
  \A t \in Started :
    tasks[t].inst = "unloaded" => tasks[t].handler \notin resizeListeners

\* C8: the promise of unloadExhibit never rejects, whichever hook throws,
\* and unloadExhibit(null) changes nothing.
C8_UnloadTotal ==
  [][/\ lastUnload'.outcome # "rejected"
     /\ (lastUnload' # lastUnload /\ lastUnload'.arg = "null")
          => UNCHANGED programVars]_vars

\* C8 witness: the stop hook threw in the latest unloadExhibit call and its
\* promise resolved.
C8_Witness ==
  /\ lastUnload.arg = "instance"
  /\ lastUnload.threw = "stop"
  /\ lastUnload.outcome = "resolved"

\* C9: getExhibitConfig for an id absent from the registry document fetches
\* no config resource and resolves to null, also when the registry fetch
\* failed.
C9_AbsentIdNull ==
  \A t \in Started :
    (tasks[t].kind = "config" /\ tasks[t].id \notin RegistryIds("loaded"))
      => /\ tasks[t].pc \in {"registry", "done"}
         /\ tasks[t].pc = "done" => tasks[t].result = "null"
         /\ tasks[t].pc # "done" => tasks[t].result = "pending"

\* C9 witness: getExhibitConfig of an absent id has resolved to null after a
\* failed registry fetch of its own.
C9_Witness ==
  \E t \in Started :
    /\ tasks[t].kind = "config"
    /\ tasks[t].id \notin RegistryIds("loaded")
    /\ tasks[t].pc = "done"
    /\ tasks[t].result = "null"
    /\ registry = "empty"

\* C10: the registry resource is fetched once: no caller starts a second
\* fetch while the constructor's fetch is in flight.
C10_RegistryFetchedOnce == RegistryFetchesInFlight <= 1

----------------------------------------------------------------------------
(* loadScript.                                                             *)

\* The primary element of l was appended and its error handler has removed
\* it.
PrimaryFailed(l) == scripts[l].injections > 0 /\ <<l, "primary">> \notin head

\* The fallback element of l was appended and its error handler has removed
\* it.
FallbackFailed(l) == scripts[l].fallbacks > 0 /\ <<l, "fallback">> \notin head

\* C11: however many loadScript calls are made for one primary URL, while
\* the first is in flight or after it has settled, all of them return the
\* promise the first one created and the primary script element is appended
\* exactly once.
C11_ScriptDedup ==
  \A l \in Libraries :
    scripts[l].calls >= 1 =>
      /\ scripts[l].injections = 1
      /\ scripts[l].returned = {1}

\* C11 witness: a library was asked for twice, its promise has resolved and
\* its primary element was appended once.
C11_Witness ==
  \E l \in Libraries :
    /\ scripts[l].calls >= 2
    /\ loadedScripts[l] = "resolved"
    /\ scripts[l].injections = 1
    /\ <<l, "primary">> \in head

\* C12: a loadScript call made while the library's global is already
\* defined inserts no script element into the document.
C12_ReadyNoInjection ==
  [][\A l \in Libraries :
       (scripts'[l].calls > scripts[l].calls /\ globals[l])
         => head' = head]_vars

\* C13: once the primary element has failed, the fallback element has been
\* appended; the promise stays pending while the fallback is loading; it
\* resolves only with the global defined; it is rejected only after the
\* fallback's own error or a readiness timeout, with an error naming the
\* library; and it is rejected as soon as the fallback has failed.
C13_FallbackBeforeReject ==
  \A l \in Libraries :
    /\ PrimaryFailed(l) => scripts[l].fallbacks = 1
    /\ scripts[l].phase = "fallback" =>
         /\ PrimaryFailed(l)
         /\ <<l, "fallback">> \in head
         /\ loadedScripts[l] = "pending"
    /\ (PrimaryFailed(l) /\ loadedScripts[l] = "resolved") => globals[l]
    /\ (PrimaryFailed(l) /\ loadedScripts[l] = "rejected") =>
         \/ scripts[l].error = <<"load", l>> /\ FallbackFailed(l)
         \/ /\ scripts[l].error = <<"timeout", l>>
            /\ scripts[l].elapsed >= Timeout
            /\ <<l, "fallback">> \in head
    /\ FallbackFailed(l) => loadedScripts[l] = "rejected"

\* C13 witness: both elements of a library have failed and its promise is
\* rejected with the load error naming it.
C13_Witness ==
  \E l \in Libraries :
    /\ PrimaryFailed(l)
    /\ FallbackFailed(l)
    /\ loadedScripts[l] = "rejected"
    /\ scripts[l].error = <<"load", l>>

----------------------------------------------------------------------------
(* loadExhibit and its dependencies.                                       *)

\* The load has reached the dynamic import.
ImportBegun(t) ==
  \/ tasks[t].pc \in {"import", "tick", "init"}
  \/ tasks[t].inst # "none"

\* The Gallery state of the Router.
GalleryState ==
  /\ currentRoute = Root
  /\ galleryVisible
  /\ ~exhibitVisible
  /\ ~loadingVisible
  /\ currentExhibit = NoExhibit

\* C15: a load has reached the dynamic import, or constructed its instance,
\* only with every library of its config asked for through loadScript and
\* its promise resolved with the global defined.
C15_DepsBeforeImport ==
  \A t \in Started :
    (tasks[t].kind # "config" /\ ImportBegun(t)) =>
      /\ Config(tasks[t].id).library = "p5" =>
           /\ scripts["p5"].calls >= 1
           /\ loadedScripts["p5"] = "resolved"
           /\ globals["p5"]
      /\ Config(tasks[t].id).controls = "dat.gui" =>
           /\ scripts["dat"].calls >= 1
           /\ loadedScripts["dat"] = "resolved"
           /\ globals["dat"]

\* C15 witness: the load of an exhibit with library p5 is at its dynamic
\* import, p5 having been loaded from its fallback.
C15_Witness ==
  \E t \in Started :
    /\ tasks[t].kind = "load"
    /\ Config(tasks[t].id).library = "p5"
    /\ tasks[t].pc = "import"
    /\ PrimaryFailed("p5")
    /\ loadedScripts["p5"] = "resolved"

\* C16: when the config of a load with neither library nor controls is
\* returned to loadExhibit, the step makes no loadScript call, appends no
\* script element and leaves the load at the dynamic import (or resolved to
\* null when the config fetch failed), never waiting for a library.
C16_NoLibsStraightToImport ==
  [][\A t \in Started :
       (/\ tasks[t].kind # "config"
        /\ Config(tasks[t].id).library = "none"
        /\ Config(tasks[t].id).controls = "none"
        /\ tasks[t].pc = "config"
        /\ tasks'[t].pc # "config")
         => /\ UNCHANGED <<scripts, head, loadedScripts>>
            /\ tasks'[t].pc \in {"import", "done"}
            /\ tasks'[t].pc = "done" => tasks'[t].result = "null"]_vars

\* C16 witness: the load of an exhibit without libraries is at its dynamic
\* import and loadScript was never called.
C16_Witness ==
  \E t \in Started :
    /\ tasks[t].kind = "load"
    /\ Config(tasks[t].id).library = "none"
    /\ Config(tasks[t].id).controls = "none"
    /\ tasks[t].pc = "import"
    /\ head = {}
    /\ \A l \in Libraries : scripts[l].calls = 0

\* C17: when a library of the Router's load is rejected, the load resolves
\* to null with no import begun, no instance and no resize listener added,
\* and the step leaves the Router in the Gallery state.
C17_DependencyFailureToGallery ==
  [][\A t \in Started :
       (/\ tasks[t].kind = "show"
        /\ tasks[t].pc \in {"config", "deps"}
        /\ tasks'[t].pc \notin {"config", "deps"}
        /\ \E l \in LibsOf(Config(tasks[t].id)) :
              loadedScripts'[l] = "rejected")
         => /\ tasks'[t].pc = "done"
            /\ tasks'[t].result = "null"
            /\ tasks'[t].inst = "none"
            /\ tasks'[t].handler = NoExhibit
            /\ resizeListeners' \subseteq resizeListeners
            /\ GalleryState']_vars

----------------------------------------------------------------------------
(* Navigation.                                                             *)

\* C18: the step in which the load for the Router's current route comes
\* back null leaves the Router in the Gallery state: route /, gallery
\* visible, exhibit view and loading indicator hidden, no current exhibit.
C18_NullLoadToGallery ==
  [][\A t \in Started :
       (/\ tasks[t].kind = "show"
        /\ tasks[t].result = "pending"
        /\ tasks'[t].result = "null"
        /\ currentRoute = PathOf(tasks[t].id))
         => GalleryState']_vars

\* C18 witness: the load of a registered exhibit has come back null after
\* its config fetch failed and the Router is in the Gallery state.
C18_Witness ==
  \E t \in Started :
    /\ tasks[t].kind = "show"
    /\ tasks[t].id \in RegistryIds(registry)
    /\ tasks[t].result = "null"
    /\ GalleryState

\* C19: in every state, navigateTo for the current route, and handleRoute
\* for every path that normalises to it, change nothing: no loadExhibit or
\* unloadExhibit call, no Router field, no view, and no history entry.
C19_RenavigateNoOp ==
  \A env \in Env :
    /\ navigateTo(Cur, currentRoute, env) = Cur
    /\ \A path \in Paths :
         NormalizePath(path) = currentRoute
           => handleRoute(Cur, path, env) = Cur

\* C19 witness: the Router is on an exhibit route with its exhibit mounted
\* and shown.
C19_Witness ==
  /\ currentRoute # Root
  /\ currentExhibit # NoExhibit
  /\ currentExhibit \in Mounted
  /\ exhibitVisible
  /\ ~loadingVisible

\* C20: in every state and for every path, the popstate handling and
\* navigateTo lead to the same state, and they differ only by the history
\* entry navigateTo pushes for the path (none when the path is the current
\* route): the popstate handling pushes none for it.
C20_PopstateAsNavigate ==
  \A path \in Paths, env \in Env :
    LET viaPop == popstate(Cur, path, env)
        viaNav == navigateTo(Cur, path, env)
    IN /\ viaNav.pushes =
            viaPop.pushes + (IF path = currentRoute THEN 0 ELSE 1)
       /\ [viaNav EXCEPT !.pushes = viaPop.pushes] = viaPop

\* C20 witness: the Router is back in the Gallery state after unloading the
\* exhibit it had mounted.
C20_Witness ==
  /\ GalleryState
  /\ lastUnload.arg = "instance"
  /\ \E t \in Started :
       tasks[t].result = "instance" /\ tasks[t].inst = "unloaded"

----------------------------------------------------------------------------
(* The Router's hooks and shortcuts.                                       *)

\* The hooks the animation-frame callback of showExhibit calls on x.
FrameHooks(x) ==
  (IF HasHook(tasks[x].id, "resize") THEN << <<"resize", x>> >> ELSE <<>>)
    \o << <<"start", x>> >>

\* C21: the Router calls resize (if present) and then start on the instance
\* of its latest load, the one of the current route, only in an
\* animation-frame callback that runs with the exhibit view visible, and the
\* loading indicator is still shown when start is called: it is hidden
\* after start, never before.
C21_StartThenHide ==
  /\ []((rafPending > 0 /\ currentExhibit # NoExhibit)
          => animationFrame(Cur).hookLog = FrameHooks(currentExhibit))
  /\ [][\A t \in Started :
          (/\ t = Len(tasks)
           /\ currentRoute = PathOf(tasks[t].id)
           /\ \A u \in Started \ {t} : tasks[u].inst = "unloaded"
           /\ ~tasks[t].isRunning
           /\ tasks'[t].isRunning)
            => /\ rafPending' = rafPending - 1
               /\ currentExhibit = t
               /\ exhibitVisible
               /\ loadingVisible]_vars

\* C22: with no current exhibit (Gallery, or an exhibit still loading) no
\* key changes anything, navigates or calls a hook; with a current exhibit
\* Escape is navigateTo of the root path (from another route: one history
\* entry, the instance stopped and no longer current), Space calls togglePause and nothing else when the instance
\* has it, r and R call reset and nothing else when the instance has it,
\* and a key or a missing hook otherwise does nothing.
C22_ShortcutsWhenActive ==
  \A key \in Keys, env \in RouterEnv :
    LET after == keyDown(Cur, key, env)
        x == currentExhibit
        hook == IF key = " " THEN "togglePause" ELSE "reset"
    IN /\ x = NoExhibit => after = Cur
       /\ (x # NoExhibit /\ key = "Escape") =>
            /\ after.currentRoute = Root
            /\ after.pushes = (IF currentRoute = Root THEN 0 ELSE 1)
            /\ (currentRoute # Root) =>
                 /\ after.currentExhibit = NoExhibit
                 /\ Len(after.hookLog) >= 1
            /\ \A i \in 1..Len(after.hookLog) :
                 after.hookLog[i] \in {<<"stop", x>>, <<"destroy", x>>}
       /\ (x # NoExhibit /\ key \in {" ", "r", "R"}) =>
            /\ [after EXCEPT !.hookLog = <<>>] = Cur
            /\ after.hookLog = (IF hook \in Hooks(tasks[x].id)
                                THEN << <<hook, x>> >> ELSE <<>>)
       /\ key \notin {"Escape", " ", "r", "R"} => after = Cur

\* C22 witness: an exhibit without togglePause and with reset is current:
\* Space calls nothing, r calls reset and Escape navigates to the root.
C22_Witness ==
  /\ currentExhibit # NoExhibit
  /\ currentRoute # Root
  /\ keyDown(Cur, " ", NoThrow).hookLog = <<>>
  /\ keyDown(Cur, "r", NoThrow).hookLog = << <<"reset", currentExhibit>> >>
  /\ keyDown(Cur, "Escape", NoThrow).pushes = 1
----------------------------------------------------------------------------
(* The exhibit classes: their listeners on window and document and their   *)
(* animation frames, for one instance driven through the lifecycle the     *)
(* loader and the Router give it.                                          *)

Classes ==
  {"flowField", "particleGalaxy", "juliaSet", "lorenz", "reactionDiffusion"}

\* Number of exhibit instances constructed in one run.
MaxInstances == 2

\* Number of pending animation-frame callbacks up to which the
\* reaction-diffusion exhibit is paused and resumed.
MaxFrames == 2

\* The listeners init() adds to window and document, in order.
Listens(class) ==
  CASE class = "flowField" -> << <<"document", "keydown">> >>
    [] class = "particleGalaxy" -> << <<"window", "resize">> >>
    [] class = "juliaSet" ->
         << <<"window", "keydown">>, <<"window", "resize">> >>
    [] class = "lorenz" ->
         << <<"window", "resize">>, <<"document", "keydown">> >>
    [] OTHER -> <<>>

\* The removeEventListener calls of destroy(), in order.
Removes(class) ==
  CASE class = "flowField" -> << <<"document", "keydown">> >>
    [] class = "particleGalaxy" -> << <<"window", "resize">> >>
    [] class = "juliaSet" ->
         << <<"window", "keydown">>, <<"window", "resize">> >>
    [] OTHER -> <<>>

\* this.handler.bind(this), or an arrow function expression: each
\* evaluation creates a new function object.
bind(i) == [i EXCEPT !.functions = @ + 1]

\* target.addEventListener(type, <a function just created>) for each entry.
RECURSIVE addEventListeners(_, _)
addEventListeners(i, entries) ==
  IF entries = <<>>
  THEN i
  ELSE LET i1 == bind(i)
           l == <<entries[1][1], entries[1][2], i1.functions>>
       IN addEventListeners([i1 EXCEPT !.listeners = @ \cup {l}],
                            Tail(entries))

\* target.removeEventListener(type, <a function just created>) for each
\* entry: the listener registered with that very function is removed.
RECURSIVE removeEventListeners(_, _)
removeEventListeners(i, entries) ==
  IF entries = <<>>
  THEN i
  ELSE LET i1 == bind(i)
           l == <<entries[1][1], entries[1][2], i1.functions>>
       IN removeEventListeners([i1 EXCEPT !.listeners = @ \ {l}],
                               Tail(entries))

\* this.animationId = requestAnimationFrame(callback): the id is one no
\* pending callback has and the instance does not hold.
requestAnimationFrame(i) ==
  LET used == i.frames \cup {i.animationId}
      id == CHOOSE n \in 1..(Cardinality(used) + 1) :
              /\ n \notin used
              /\ \A k \in 1..(n - 1) : k \in used
  IN [i EXCEPT !.frames = @ \cup {id}, !.animationId = id]

\* if (this.animationId) { cancelAnimationFrame(this.animationId);
\* this.animationId = null; }
cancelAnimationFrame(i) ==
  IF i.animationId # 0
  THEN [i EXCEPT !.frames = @ \ {i.animationId}, !.animationId = 0]
  ELSE i

\* animate(): the body of the animation-frame callback.  Lorenz schedules
\* the next frame before it looks at isRunning; ParticleGalaxy and Julia
\* return first when not running, ReactionDiffusion when not running or
\* paused; FlowField draws through p5.
animate(i) ==
  CASE i.class = "lorenz" -> requestAnimationFrame(i)
    [] i.class \in {"particleGalaxy", "juliaSet"} ->
         IF i.isRunning THEN requestAnimationFrame(i) ELSE i
    [] i.class = "reactionDiffusion" ->
         IF ~i.isRunning \/ i.isPaused THEN i ELSE requestAnimationFrame(i)
    [] OTHER -> i

init(i) ==
  LET i1 == addEventListeners(i, Listens(i.class))
      i2 == IF i.class = "lorenz" THEN animate(i1) ELSE i1
  IN [i2 EXCEPT !.phase = "initialised"]

\* start(): Julia's startAnimation schedules its first frame itself.
start(i) ==
  LET i1 == [i EXCEPT !.isRunning = TRUE]
  IN IF i.class = "juliaSet" THEN requestAnimationFrame(i1) ELSE animate(i1)

stop(i) ==
  CASE i.class = "flowField" -> [i EXCEPT !.isRunning = FALSE]
    [] i.class \in {"lorenz", "reactionDiffusion"} ->
         cancelAnimationFrame([i EXCEPT !.isRunning = FALSE,
                                        !.isPaused = TRUE])
    [] OTHER -> cancelAnimationFrame([i EXCEPT !.isRunning = FALSE])

togglePause(i) ==
  CASE i.class = "particleGalaxy" ->
         IF i.isRunning THEN stop(i) ELSE start(i)
    [] i.class = "lorenz" -> [i EXCEPT !.isPaused = ~@]
    [] i.class = "reactionDiffusion" ->
         LET i1 == [i EXCEPT !.isPaused = ~@]
         IN IF ~i1.isPaused THEN animate(i1) ELSE i1
    [] OTHER -> i

destroy(i) ==
  [removeEventListeners(stop(i), Removes(i.class))
     EXCEPT !.phase = "destroyed"]

\* loadExhibit: "new ExhibitClass(this.container, config)", for the next
\* exhibit shown after the instance was unloaded.  The listeners and the
\* pending callbacks the old instance left behind stay with the page.
construct(i, class) ==
  [NewInstance(class) EXCEPT
     !.listeners = i.listeners,
     !.functions = i.functions,
     !.born = i.functions,
     !.orphans = i.orphans \o [k \in 1..Cardinality(i.frames) |-> i.class],
     !.count = i.count + 1]

\* A pending callback of a destroyed instance runs animate() on it: Lorenz
\* schedules the next one, the others return because isRunning is false.
orphanCallback(i, k) ==
  IF i.orphans[k] = "lorenz"
  THEN i
  ELSE [i EXCEPT !.orphans = SubSeq(@, 1, k - 1) \o SubSeq(@, k + 1, Len(@))]

ExhibitConstruct(class) ==
  /\ instance.phase = "destroyed"
  /\ instance.count < MaxInstances
  /\ Commit([Cur EXCEPT !.instance = construct(@, class)])

OrphanCallback(k) ==
  /\ k \in 1..Len(instance.orphans)
  /\ Commit([Cur EXCEPT !.instance = orphanCallback(@, k)])

\* loadExhibit: "await exhibit.init()".
ExhibitInit ==
  /\ instance.phase = "constructed"
  /\ Commit([Cur EXCEPT !.instance = init(@)])

\* The Router's animation-frame callback: "this.currentExhibit.start()".
ExhibitStart ==
  /\ instance.phase = "initialised"
  /\ ~instance.started
  /\ Commit([Cur EXCEPT !.instance = [start(@) EXCEPT !.started = TRUE]])

\* The Router's Space shortcut on the current exhibit.
ExhibitTogglePause ==
  /\ instance.phase = "initialised"
  /\ instance.class \in {"particleGalaxy", "lorenz", "reactionDiffusion"}
  /\ instance.class = "reactionDiffusion"
       => Cardinality(instance.frames) < MaxFrames
  /\ Commit([Cur EXCEPT !.instance = togglePause(@)])

\* unloadExhibit: "exhibit.stop(); exhibit.destroy();".
ExhibitUnload ==
  /\ instance.phase = "initialised"
  /\ Commit([Cur EXCEPT !.instance = destroy(stop(@))])

\* The browser runs a pending animation-frame callback of the instance.
FrameCallback(f) ==
  /\ f \in instance.frames
  /\ Commit([Cur EXCEPT !.instance = animate([@ EXCEPT !.frames = @ \ {f}])])

\* The ids of pending callbacks: an instance has at most two pending and
\* leaves at most two behind.
FrameIds == 1..(2 * MaxInstances)

NextExhibit ==
  \/ \E class \in Classes : ExhibitConstruct(class)
  \/ \E k \in FrameIds : OrphanCallback(k)
  \/ ExhibitInit
  \/ ExhibitStart
  \/ ExhibitTogglePause
  \/ ExhibitUnload
  \/ \E f \in FrameIds : FrameCallback(f)

InitExhibit ==
  \E class \in Classes :
    Holds([LoaderInit EXCEPT !.instance = NewInstance(class)])

SpecExhibit == InitExhibit /\ [][NextExhibit]_vars

\* The listeners registered with a function the instance created.
OwnListeners ==
  { l \in instance.listeners : l[3] > instance.born }

\* C23: once destroy() has returned, no listener the instance added to
\* window or document in init() is still registered.
C23_ListenersRemoved ==
  instance.phase = "destroyed" => OwnListeners = {}

\* C24: once the Lorenz exhibit, initialised and started, has been stopped
\* and destroyed, none of its animation-frame callbacks is pending.
C24_LorenzFramesCancelled ==
  (instance.class = "lorenz" /\ instance.started
     /\ instance.phase = "destroyed")
    => instance.frames = {}
----------------------------------------------------------------------------
(* The steps of loadExhibit.                                               *)

\* The positions a loadExhibit call can move between in one step.
LoadSteps ==
  { <<"registry", "config">>, <<"config", "deps">>, <<"config", "import">>,
    <<"deps", "import">>, <<"import", "tick">>, <<"tick", "init">>,
    <<"import", "done">>, <<"init", "done">>,
    <<"registry", "done">>, <<"config", "done">>, <<"deps", "done">> }

\* C25: a loadExhibit call moves through its steps in the order config,
\* dependencies, container cleared and module import, instance constructed,
\* one tick, init, resize listener attached and instance returned: the
\* import starts with the libraries resolved and the container empty, the
\* instance is constructed by the step that ends the import, init follows
\* the tick, and the resize listener is attached only by the step that
\* returns the instance, after init when the class has one, so that no
\* listener of the load is registered while init runs.
C25_LoadStepOrder ==
  /\ [](\A t \in Started :
          tasks[t].kind # "config" =>
            /\ (t \in resizeListeners \/ tasks[t].handler # NoExhibit)
                 => (tasks[t].pc = "done" /\ tasks[t].result = "instance")
            /\ tasks[t].pc \in {"tick", "init"} => tasks[t].inst = "live"
            /\ tasks[t].pc \in {"registry", "config", "deps", "import"}
                 => tasks[t].inst = "none")
  /\ [][\A t \in Started :
          tasks[t].kind # "config" =>
            /\ tasks'[t].pc # tasks[t].pc
                 => <<tasks[t].pc, tasks'[t].pc>> \in LoadSteps
            /\ (tasks[t].pc # "import" /\ tasks'[t].pc = "import")
                 => /\ container' = {}
                    /\ \A l \in LibsOf(Config(tasks[t].id)) :
                         loadedScripts'[l] = "resolved"
            /\ (tasks[t].result # "instance"
                  /\ tasks'[t].result = "instance")
                 => /\ tasks[t].pc = (IF Config(tasks[t].id).hasInit
                                      THEN "init" ELSE "import")
                    /\ tasks'[t].inst = "live"
                    /\ tasks'[t].handler = t
                    /\ t \notin resizeListeners
                    /\ t \in resizeListeners']_vars

\* C25 witness: a load of an exhibit whose class has init has returned its
\* instance with the resize listener attached.
C25_Witness ==
  \E t \in Started :
    /\ tasks[t].kind = "load"
    /\ Config(tasks[t].id).hasInit
    /\ tasks[t].pc = "done"
    /\ tasks[t].result = "instance"
    /\ t \in resizeListeners
----------------------------------------------------------------------------
(* waitForGlobal with arguments of its own.                                *)

\* "timeout = 5000"
DefaultTimeout == 5000

\* The largest of the small timeouts and of the small intervals tried.
MaxTimeout == 4

MaxInterval == 3

Timeouts == 1..MaxTimeout \cup {DefaultTimeout}

Intervals == 1..MaxInterval \cup {Interval}

CallWaitForGlobal(name, timeout, interval) ==
  /\ wait.promise = "none"
  /\ Commit(waitForGlobal(Cur, name, timeout, interval))

\* "setTimeout(check, interval)" of the call fires.
WaitTimer ==
  /\ wait.timer
  /\ Commit(waitCheck(Cur))

NextWait ==
  \/ \E l \in Libraries, timeout \in Timeouts, interval \in Intervals :
        CallWaitForGlobal(l, timeout, interval)
  \/ WaitTimer
  \/ \E l \in Libraries : GlobalDefined(l, TRUE)

SpecWait == InitLoader /\ [][NextWait]_vars

\* ceil(a / b)
Ceil(a, b) == (a + b - 1) \div b

\* C26: a waitForGlobal call resolves at the first check that finds the
\* global defined, and otherwise rejects at its ceil(timeout/interval)-th
\* failed check, the 100th with the defaults, and not before; a further
\* check is scheduled exactly while the promise is pending; resolve or
\* reject is called once in all.
C26_WaitForGlobalChecks ==
  /\ Ceil(DefaultTimeout, Interval) = 100
  /\ [](wait.promise # "none" =>
          /\ wait.elapsedTime = wait.failed * wait.interval
          /\ wait.timer <=> wait.promise = "pending"
          /\ wait.resolves + wait.rejects =
               (IF wait.promise = "pending" THEN 0 ELSE 1)
          /\ wait.promise = "pending" =>
               /\ wait.failed >= 1
               /\ wait.failed < Ceil(wait.timeout, wait.interval)
          /\ wait.promise = "resolved" =>
               /\ wait.resolves = 1
               /\ globals[wait.name]
               /\ wait.failed < Ceil(wait.timeout, wait.interval)
          /\ wait.promise = "rejected" =>
               /\ wait.rejects = 1
               /\ wait.failed = Ceil(wait.timeout, wait.interval))
  /\ [][(wait' # wait /\ globals[wait'.name])
          => (wait'.promise = "resolved" /\ wait'.failed = wait.failed)]_vars

\* C26 witness: a call with the defaults has rejected at its 100th failed
\* check.
C26_Witness ==
  /\ wait.timeout = DefaultTimeout
  /\ wait.interval = Interval
  /\ wait.promise = "rejected"
  /\ wait.failed = 100
  /\ ~wait.timer
----------------------------------------------------------------------------
(* The loader that deduplicates by script element id.                      *)

\* Number of loadScript calls made on that loader in one run.
MaxVariantCalls == 3

\* loadScript({src, fallback, id}): a new promise per call, resolved at once
\* when an element with the id is in the document; otherwise the primary
\* element is appended and its events settle this call's promise.
loadScriptById(v, l) ==
  IF v.element[l] # "none"
  THEN [v EXCEPT !.calls = Append(@, [lib |-> l, promise |-> "resolved",
                                      created |-> FALSE])]
  ELSE [v EXCEPT !.element[l] = "primary",
                 !.calls = Append(@, [lib |-> l, promise |-> "pending",
                                      created |-> TRUE])]

\* resolve or reject of the call that appended the element of l.
settleCreator(v, l, outcome) ==
  [v EXCEPT !.calls =
     [c \in 1..Len(v.calls) |->
        IF v.calls[c].lib = l /\ v.calls[c].created
        THEN [v.calls[c] EXCEPT !.promise = outcome]
        ELSE v.calls[c]]]

\* "script.onload = resolve", "fallbackScript.onload = resolve"
onload(v, l) == settleCreator([v EXCEPT !.element[l] = "loaded"], l, "resolved")

\* script.onerror appends the fallback element under the same id and removes
\* the primary; "fallbackScript.onerror = reject" leaves the element.
onerror(v, l) ==
  IF v.element[l] = "primary"
  THEN [v EXCEPT !.element[l] = "fallback"]
  ELSE settleCreator([v EXCEPT !.element[l] = "failed"], l, "rejected")

\* loadDependencies of a loadExhibit call reaches loadScript for l; the
\* module import follows as soon as the returned promise resolves.
VariantLoadScript(l) ==
  /\ Len(variant.calls) < MaxVariantCalls
  /\ Commit([Cur EXCEPT !.variant = loadScriptById(@, l)])

VariantLoadEvent(l) ==
  /\ variant.element[l] \in {"primary", "fallback"}
  /\ Commit([Cur EXCEPT !.variant = onload(@, l)])

VariantErrorEvent(l) ==
  /\ variant.element[l] \in {"primary", "fallback"}
  /\ Commit([Cur EXCEPT !.variant = onerror(@, l)])

NextVariant ==
  \/ \E l \in Libraries : VariantLoadScript(l)
  \/ \E l \in Libraries : VariantLoadEvent(l)
  \/ \E l \in Libraries : VariantErrorEvent(l)

SpecVariant == InitLoader /\ [][NextVariant]_vars

\* C27: in the loader that deduplicates by element id, the promise of a
\* loadScript call is resolved only once the load event of the library's
\* script has fired, also for a call made while an earlier call for the
\* library is in flight.
C27_SharedOutcome ==
  \A c \in 1..Len(variant.calls) :
    variant.calls[c].promise = "resolved"
      => variant.element[variant.calls[c].lib] = "loaded"
----------------------------------------------------------------------------
(* The Gallery.                                                            *)

\* Number of entries of the registry document the Gallery fetches.
MaxEntries == 3

\* The debounce delay, 300 ms, in steps of 100 ms.
Delay == 3

\* Number of input events in one burst.
MaxBurst == 2

Categories == {"all", "fractal", "generative"}

\* The values of the search input when its input events fire.
InputValues == {<<>>, <<"A">>, <<"a", "B">>}

\* config.json of the entry id.  hasTags: the config has a tags array.
ConfigOf(id) ==
  [id |-> id,
   category |-> IF id % 2 = 1 THEN "fractal" ELSE "generative",
   title |-> IF id % 2 = 1 THEN <<"A", "b">> ELSE <<"B">>,
   description |-> IF id % 3 = 0 THEN <<"a", "a">> ELSE <<"b">>,
   hasTags |-> id % 3 # 1,
   tags |-> << <<"A">> >>]

\* String.prototype.toLowerCase
toLowerCase(str) ==
  [k \in 1..Len(str) |->
     IF str[k] = "A" THEN "a" ELSE IF str[k] = "B" THEN "b" ELSE str[k]]

\* String.prototype.includes
includes(str, q) ==
  \E k \in 0..Len(str) :
    k + Len(q) <= Len(str) /\ SubSeq(str, k + 1, k + Len(q)) = q

\* A filter that keeps only the entries flagged enabled: true.
EnabledTrue(flag) == flag = "true"

\* "e.enabled !== false"
IsEnabled(flag) == flag # "false"

\* The predicate of filterExhibits.
Matches(g, id) ==
  LET exhibit == ConfigOf(id)
      categoryMatch == \/ g.currentCategory = "all"
                       \/ exhibit.category = g.currentCategory
      searchMatch ==
        \/ g.searchQuery = <<>>
        \/ includes(toLowerCase(exhibit.title), g.searchQuery)
        \/ includes(toLowerCase(exhibit.description), g.searchQuery)
        \/ /\ exhibit.hasTags
           /\ \E k \in 1..Len(exhibit.tags) :
                includes(toLowerCase(exhibit.tags[k]), g.searchQuery)
  IN categoryMatch /\ searchMatch

\* The elements of seq that satisfy Keep, in order.
RECURSIVE filter(_, _, _)
filter(g, seq, k) ==
  IF k > Len(seq)
  THEN <<>>
  ELSE (IF Matches(g, seq[k]) THEN <<seq[k]>> ELSE <<>>)
         \o filter(g, seq, k + 1)

filterExhibits(g) == [g EXCEPT !.filteredExhibits = filter(g, g.exhibits, 1)]

\* The ids of the entries whose fetch has the given outcome, in registry
\* order.
RECURSIVE Fetched(_, _, _)
Fetched(g, outcome, k) ==
  IF k > Len(g.registry)
  THEN <<>>
  ELSE (IF g.fetches[k] = outcome THEN <<k>> ELSE <<>>)
         \o Fetched(g, outcome, k + 1)

\* Promise.all of the config fetches has resolved: "this.exhibits = (await
\* Promise.all(exhibitPromises)).filter(e => e !== null)", then init() goes
\* on to setupEventListeners and render.
configsLoaded(g) ==
  LET exhibits == Fetched(g, "ok", 1)
  IN [g EXCEPT !.phase = "ready", !.exhibits = exhibits,
               !.filteredExhibits = exhibits]

\* The registry fetch of loadExhibits settles: a config fetch is started for
\* every enabled entry; a failure is caught and leaves both lists empty.
registryDone(g, ok) ==
  IF ~ok
  THEN [g EXCEPT !.phase = "ready", !.exhibits = <<>>,
                 !.filteredExhibits = <<>>]
  ELSE LET g1 == [g EXCEPT !.phase = "configs",
                           !.fetches = [i \in 1..Len(g.registry) |->
                                          IF IsEnabled(g.registry[i])
                                          THEN "pending" ELSE "none"]]
       IN IF \A i \in 1..Len(g.registry) : g1.fetches[i] # "pending"
          THEN configsLoaded(g1)
          ELSE g1

\* The config fetch of entry i settles: a failure is caught and gives null.
configDone(g, i, ok) ==
  LET g1 == [g EXCEPT !.fetches[i] = IF ok THEN "ok" ELSE "failed"]
  IN IF \A k \in 1..Len(g.registry) : g1.fetches[k] # "pending"
     THEN configsLoaded(g1)
     ELSE g1

\* A debounce that leaves the earlier timer running.
KeepTimeout(timers, id) == timers

\* clearTimeout(timeoutId)
clearTimeout(timers, id) == { x \in timers : x.id # id }

\* The function debounce returns, called with the input event: the timer of
\* the call before is cleared and a new one set.
debounced(g, value) ==
  LET timers == clearTimeout(g.timers, g.timeoutId)
      used == { x.id : x \in timers }
      id == CHOOSE n \in 1..(Cardinality(used) + 1) : n \notin used
  IN [g EXCEPT !.timers = timers \cup
                            {[id |-> id, args |-> value, remaining |-> Delay]},
               !.timeoutId = id]

\* The debounced callback of the search input.
searchCallback(g, value) ==
  filterExhibits([g EXCEPT !.searchQuery = toLowerCase(value),
                           !.burst.runs = @ + 1])

\* The click listener of the category filters.
categoryClick(g, category) ==
  filterExhibits([g EXCEPT !.currentCategory = category])

GalleryRegistryDone(ok) ==
  /\ gallery.phase = "registry"
  /\ Commit([Cur EXCEPT !.gallery = registryDone(@, ok)])

GalleryConfigDone(i, ok) ==
  /\ gallery.phase = "configs"
  /\ i \in 1..Len(gallery.registry)
  /\ gallery.fetches[i] = "pending"
  /\ Commit([Cur EXCEPT !.gallery = configDone(@, i, ok)])

CategoryClick(category) ==
  /\ gallery.phase = "ready"
  /\ Commit([Cur EXCEPT !.gallery = categoryClick(@, category)])

\* A timer that is due runs before time moves on and before a later event.
TimerDue == \E x \in gallery.timers : x.remaining = 0

\* An input event of the search box.  It starts a burst when it is the first
\* or follows the one before by the delay or more.
SearchInput(value) ==
  /\ gallery.phase = "ready"
  /\ ~TimerDue
  /\ LET b == gallery.burst
         starts == ~b.typed \/ b.since >= Delay
     IN /\ starts \/ b.events < MaxBurst
        /\ Commit([Cur EXCEPT !.gallery =
              [debounced(@, value) EXCEPT
                 !.burst = [typed |-> TRUE,
                            events |-> IF starts THEN 1 ELSE b.events + 1,
                            value |-> value, since |-> 0,
                            runs |-> IF starts THEN 0 ELSE b.runs]]])

\* 100 ms pass.
Clock ==
  /\ gallery.phase = "ready"
  /\ ~TimerDue
  /\ gallery.burst.typed
  /\ gallery.burst.since < Delay
  /\ Commit([Cur EXCEPT
        !.gallery.timers = { [x EXCEPT !.remaining = @ - 1] : x \in @ },
        !.gallery.burst.since = @ + 1])

\* A timer of the debounced handler fires.
SearchTimer ==
  \E x \in gallery.timers :
    /\ x.remaining = 0
    /\ Commit([Cur EXCEPT !.gallery =
          searchCallback([@ EXCEPT !.timers = @ \ {x}], x.args)])

NextGallery ==
  \/ \E ok \in BOOLEAN : GalleryRegistryDone(ok)
  \/ \E i \in 1..MaxEntries, ok \in BOOLEAN : GalleryConfigDone(i, ok)
  \/ \E category \in Categories : CategoryClick(category)
  \/ \E value \in InputValues : SearchInput(value)
  \/ Clock
  \/ SearchTimer

InitGallery ==
  \E doc \in [1..MaxEntries -> {"true", "false", "undefined"}] :
    Holds([LoaderInit EXCEPT !.gallery = NewGallery(doc)])

SpecGallery == InitGallery /\ [][NextGallery]_vars

RECURSIVE IsSubSeq(_, _, _)
IsSubSeq(a, b, k) ==
  IF a = <<>>
  THEN TRUE
  ELSE IF k > Len(b)
  THEN FALSE
  ELSE IF a[1] = b[k]
  THEN IsSubSeq(Tail(a), b, k + 1)
  ELSE IsSubSeq(a, b, k + 1)

\* The configs loadExhibits is to keep: of the entries not flagged
\* enabled: false whose config fetch succeeded, in registry order.
RECURSIVE Expected(_, _)
Expected(g, k) ==
  IF k > Len(g.registry)
  THEN <<>>
  ELSE (IF g.registry[k] # "false" /\ g.fetches[k] = "ok"
        THEN <<k>> ELSE <<>>) \o Expected(g, k + 1)

\* C29: once loadExhibits has returned (after a failed registry fetch no
\* config is fetched), the exhibit list holds exactly the configs of the entries that are not
\* flagged enabled: false and whose config fetch succeeded, in registry
\* order, and filteredExhibits is a sub-sequence of the list from then on.
C29_GalleryList ==
  gallery.phase = "ready"
    => /\ gallery.exhibits = Expected(gallery, 1)
       /\ (\E i \in 1..Len(gallery.registry) : gallery.fetches[i] # "none")
            => \A i \in 1..Len(gallery.registry) :
                 gallery.registry[i] # "false" =>
                   gallery.fetches[i] \in {"ok", "failed"}
       /\ IsSubSeq(gallery.filteredExhibits, gallery.exhibits, 1)

\* C29 witness: of three entries one is disabled, one has no enabled flag
\* and its config was fetched, and one enabled entry's config fetch failed;
\* the list holds one config and the filter has emptied filteredExhibits.
C29_Witness ==
  /\ gallery.phase = "ready"
  /\ \E i, j, k \in 1..Len(gallery.registry) :
       /\ gallery.registry[i] = "false"
       /\ gallery.registry[j] = "undefined" /\ gallery.fetches[j] = "ok"
       /\ gallery.registry[k] = "true" /\ gallery.fetches[k] = "failed"
  /\ Len(gallery.exhibits) = 1
  /\ gallery.filteredExhibits = <<>>
----------------------------------------------------------------------------
(* Rejected library promises.                                              *)

\* The registered exhibits that need a library.
LibraryExhibits ==
  { id \in RegistryIds("loaded") : LibsOf(Config(id)) # {} }

\* The loader driven through loadScript and the loadExhibit of exhibits that
\* need libraries while its scripts load, fail or time out; the registry,
\* the configs and the imports succeed (these exhibits have no init).
NextRetry ==
  \/ \E l \in Libraries : CallLoadScript(l)
  \/ \E id \in LibraryExhibits : CallLoadExhibit(id)
  \/ CtorRegistryDone(TRUE)
  \/ \E t \in Tasks : TaskRegistryDone(t, TRUE)
  \/ \E t \in Tasks : ConfigFetchDone(t, TRUE)
  \/ \E l \in Libraries, ready \in BOOLEAN : ScriptLoad(l, ready)
  \/ \E l \in Libraries : ScriptError(l)
  \/ \E l \in Libraries : PollTimer(l)
  \/ \E l \in Libraries : GlobalDefined(l, FALSE)
  \/ \E t \in Tasks : ImportDone(t, "ok", TRUE)

SpecRetry == InitLoader /\ [][NextRetry]_vars

\* The elements of library l in document.head.
ElementsOf(h, l) == { e \in h : e[1] = l }

\* C30: once the promise loadScript created for a library is rejected, it
\* stays in the map rejected, every later loadScript call for the library
\* returns that promise and appends no element, and a loadExhibit that needs
\* the library never waits for it or imports its module: it resolves to
\* null in the step in which it reaches its libraries.
C30_RejectionCached ==
  /\ [](\A l \in Libraries, t \in Started :
          (/\ loadedScripts[l] = "rejected"
           /\ tasks[t].kind = "load"
           /\ l \in LibsOf(Config(tasks[t].id)))
            => /\ tasks[t].pc \in {"registry", "config", "done"}
               /\ tasks[t].inst = "none"
               /\ tasks[t].pc = "done" => tasks[t].result = "null")
  /\ [][\A l \in Libraries :
          loadedScripts[l] = "rejected"
            => /\ loadedScripts'[l] = "rejected"
               /\ ElementsOf(head', l) = ElementsOf(head, l)
               /\ scripts'[l].injections = scripts[l].injections
               /\ scripts'[l].fallbacks = scripts[l].fallbacks
               /\ scripts'[l].error = scripts[l].error
               /\ scripts'[l].returned = {scripts[l].injections}]_vars

\* C30 witness: after the promise of a library was rejected, loadScript was
\* called for it again and a loadExhibit that needs it has fetched its
\* config and resolved to null, one primary element having been appended in
\* all.
C30_Witness ==
  \E l \in Libraries, t \in Started :
    /\ loadedScripts[l] = "rejected"
    /\ scripts[l].calls = 1 + MaxScriptCalls
    /\ scripts[l].injections = 1
    /\ tasks[t].kind = "load"
    /\ l \in LibsOf(Config(tasks[t].id))
    /\ tasks[t].pc = "done"
    /\ tasks[t].result = "null"

----------------------------------------------------------------------------
(* What a failed load leaves behind.                                       *)

\* C31: the step in which loadExhibit resolves to null leaves the container
\* without children and adds no resize listener, also when the instance was
\* constructed and its constructor or init appended to the container before
\* init rejected.
C31_NullLoadLeavesNoTrace ==
  [][\A t \in Started :
       (/\ tasks[t].kind # "config"
        /\ tasks[t].result = "pending"
        /\ tasks'[t].result = "null")
         => /\ container' = {}
            /\ resizeListeners' \subseteq resizeListeners]_vars

----------------------------------------------------------------------------
(* The animation-frame callback of showExhibit and the instance it finds.  *)

\* C32: the Router calls start at most once on an instance.  showExhibit
\* schedules one animation-frame callback per instance it shows, so a
\* callback that runs on an instance other than its own is a second start
\* of that instance: no callback runs with a current exhibit that was
\* started already, here for the instance of the latest load with every
\* earlier instance unloaded.
C32_StartOncePerInstance ==
  [][\A t \in Started :
       (/\ t = Len(tasks)
        /\ currentRoute = PathOf(tasks[t].id)
        /\ \A u \in Started \ {t} : tasks[u].inst = "unloaded"
        /\ currentExhibit = t
        /\ rafPending > 0
        /\ rafPending' = rafPending - 1)
         => ~tasks[t].isRunning]_vars

\* C33: whenever the animation-frame callback of showExhibit runs, the
\* Router has a current exhibit.
C33_FrameFindsExhibit ==
  [][rafPending' < rafPending => currentExhibit # NoExhibit]_vars

----------------------------------------------------------------------------
(* Hooks called on an instance after its destroy.                          *)

\* The resize listener loadExhibit registers for the instance t, called by
\* a resize event of the window.
resizeHandler(s, t) == callHook(s, t, "resize")

\* The instance was passed to unloadExhibit and neither hook threw: destroy
\* was called and the recorded listener removed.
Destroyed(t) ==
  /\ tasks[t].inst = "unloaded"
  /\ tasks[t].handler \notin resizeListeners

\* The hooks of t other than stop and destroy that the log holds.
LateHooks(log, t) ==
  { i \in 1..Len(log) :
      log[i][2] = t /\ log[i][1] \in {"resize", "start", "togglePause", "reset"} }

----------------------------------------------------------------------------
(* The loading indicator during a load.                                    *)

\* C35: while the latest load the Router started is in flight and its
\* exhibit is the one of the current route, the loading indicator is
\* visible.
C35_LoadingShownDuringLoad ==
  \A t \in Started :
    (/\ t = Len(tasks)
     /\ tasks[t].kind = "show"
     /\ tasks[t].pc # "done"
     /\ currentRoute = PathOf(tasks[t].id))
      => loadingVisible

----------------------------------------------------------------------------
(* Escape from an exhibit.                                                 *)

\* C36: in every state with a current exhibit, the keydown listener called
\* with Escape (as the back button's click listener) leaves the Router in
\* the Gallery state, the instance unloaded and no exhibit current.
C36_EscapeLeavesExhibit ==
  currentExhibit # NoExhibit =>
    LET after == keyDown(Cur, "Escape", NoThrow)
    IN /\ after.currentExhibit = NoExhibit
       /\ after.tasks[currentExhibit].inst = "unloaded"
       /\ after.currentRoute = Root
       /\ after.galleryVisible
       /\ ~after.exhibitVisible
       /\ ~after.loadingVisible

----------------------------------------------------------------------------
(* The enabled flag of a registry entry.                                   *)

\* The registry document with the enabled flags replaced by flags.
WithEnabled(flags) ==
  [i \in 1..Len(RegistryDoc) |-> [RegistryDoc[i] EXCEPT !.enabled = flags[i]]]

\* C37: the lookup of getExhibitConfig gives the same answer whatever the
\* enabled flags of the registry entries are, and once getExhibitConfig,
\* called directly or by loadExhibit, has the registry, it goes on to fetch
\* the config of every id the document lists, enabled or not, and resolves
\* to null without a fetch for every other id.
C37_EnabledFlagIgnored ==
  /\ [](\A flags \in [1..Len(RegistryDoc) -> BOOLEAN], id \in ExhibitIds :
          find(WithEnabled(flags), id) = find(RegistryDoc, id))
  /\ [][\A t \in 1..Len(tasks') :
          (/\ t > Len(tasks) \/ tasks[t].pc = "registry"
           /\ tasks'[t].pc # "registry")
            => IF /\ registry' = "loaded"
                  /\ \E i \in 1..Len(RegistryDoc) :
                       RegistryDoc[i].id = tasks'[t].id
               THEN tasks'[t].pc = "config"
               ELSE /\ tasks'[t].pc = "done"
                    /\ tasks'[t].result = "null"]_vars

\* C37 witness: loadExhibit has returned the instance of an exhibit whose
\* registry entry has enabled false.
C37_Witness ==
  \E t \in Started, i \in 1..Len(RegistryDoc) :
    /\ RegistryDoc[i].id = tasks[t].id
    /\ ~RegistryDoc[i].enabled
    /\ tasks[t].kind = "load"
    /\ tasks[t].result = "instance"

----------------------------------------------------------------------------
(* The animation loop of the reaction-diffusion exhibit.                   *)

\* C38: the reaction-diffusion exhibit has at most one animation-frame
\* callback pending at any time, and none once it was stopped and
\* destroyed.
C38_OneAnimationLoop ==
  instance.class = "reactionDiffusion" =>
    /\ Cardinality(instance.frames) <= 1
    /\ instance.phase = "destroyed" => instance.frames = {}
====
